---- MODULE Spec2Model ----
(***************************************************************************)
(* A model of the DriftMoney OCR pipeline API                              *)
(* (ocr-pipeline/api-service/main.py).                                     *)
(*                                                                         *)
(* Text is a sequence of one-character strings.  The pure functions of the *)
(* service (truncate_text_for_context, detect_document_type,               *)
(* extract_json_from_response, convert_to_driftmoney_format) are operators *)
(* computed the way the code computes them; each has a specification that  *)
(* draws its arguments from a bounded set and applies it.  call_ollama is  *)
(* modelled line by line, and parse_document stage by stage.               *)
(***************************************************************************)
EXTENDS Integers, Sequences, FiniteSets, TLC

VARIABLES
    truncCall,        \* one call of truncate_text_for_context: arguments, result
    detectCall,       \* one call of detect_document_type
    extractCall,      \* one call of extract_json_from_response
    convertCall,      \* one call of convert_to_driftmoney_format
    o_pc,             \* call_ollama: position of the coroutine
    stream,           \* call_ollama: the lines response.aiter_lines() yields
    next_line,        \* call_ollama: index of the next line to be yielded
    full_response,    \* call_ollama: the accumulator
    o_exc,            \* call_ollama: the exception that left it, or "none"
    p_pc,             \* parse_document: position of the handler
    request,          \* parse_document: the form fields as received
    document_type,    \* parse_document: the form field, then the resolved type
    ocr_text,         \* parse_document: what call_surya_ocr returned
    truncated_text,   \* parse_document: what truncate_text_for_context returned
    llm_response,     \* parse_document: what call_ollama returned
    parsed_data,      \* parse_document: what extract_json_from_response returned
    result,           \* parse_document: the ParseResult returned, or NoResult
    status_code,      \* parse_document: the HTTP status of the response, 0 while running
    p_exc,            \* parse_document: the stage that raised, and what it raised
    stages            \* parse_document: the stages executed so far, in order

pureVars   == <<truncCall, detectCall, extractCall, convertCall>>
ollamaVars == <<o_pc, stream, next_line, full_response, o_exc>>
parseVars  == <<p_pc, request, document_type, ocr_text, truncated_text, llm_response,
                parsed_data, result, status_code, p_exc, stages>>
vars       == <<pureVars, ollamaVars, parseVars>>

None == "None"
Idle == [pc |-> "idle"]

IdleOllama ==
    /\ o_pc = "idle" /\ stream = <<>> /\ next_line = 0
    /\ full_response = <<>> /\ o_exc = "none"

NoRequest == [document_type |-> None, include_raw_text |-> FALSE]
NoPayload == [t |-> "none"]
NoResult  == [returned |-> FALSE]
NoExc     == [stage |-> "none", error |-> "none"]

IdleParse ==
    /\ p_pc = "idle" /\ request = NoRequest /\ document_type = None
    /\ ocr_text = <<>> /\ truncated_text = <<>> /\ llm_response = <<>>
    /\ parsed_data = NoPayload /\ result = NoResult /\ status_code = 0
    /\ p_exc = NoExc /\ stages = <<>>

(***************************************************************************)
(* Sequences of characters.                                                *)
(***************************************************************************)
\* All sequences over S of length at most n.
SeqsUpTo(S, n) == UNION {[1..k -> S] : k \in 0..n}

RECURSIVE Flatten(_)
Flatten(ss) == IF ss = <<>> THEN <<>> ELSE Head(ss) \o Flatten(Tail(ss))

\* The smallest index i >= from with s[i] = c, or 0.
IndexFrom(s, c, from) ==
    LET hits == {i \in from..Len(s) : s[i] = c}
    IN  IF hits = {} THEN 0 ELSE CHOOSE i \in hits : \A j \in hits : i <= j

\* str.split(sep) for a one-character separator: "a\n" -> ["a", ""].
RECURSIVE Split(_, _)
Split(s, sep) ==
    LET i == IndexFrom(s, sep, 1)
    IN  IF i = 0 THEN <<s>>
        ELSE <<SubSeq(s, 1, i - 1)>> \o Split(SubSeq(s, i + 1, Len(s)), sep)

\* sep.join(parts).
RECURSIVE Join(_, _)
Join(parts, sep) ==
    IF parts = <<>> THEN <<>>
    ELSE IF Len(parts) = 1 THEN parts[1]
    ELSE parts[1] \o sep \o Join(Tail(parts), sep)

(***************************************************************************)
(* truncate_text_for_context                                               *)
(***************************************************************************)
\* "\n[... document truncated for context limit ...]"
Sentinel ==
    <<"\n", "[", ".", ".", ".", " ", "d", "o", "c", "u", "m", "e", "n", "t", " ",
      "t", "r", "u", "n", "c", "a", "t", "e", "d", " ", "f", "o", "r", " ",
      "c", "o", "n", "t", "e", "x", "t", " ", "l", "i", "m", "i", "t", " ",
      ".", ".", ".", "]">>

\* The loop's test without the separator's character.
ExceedsNoSeparator(char_count, line, max_chars) ==
    char_count + Len(line) > max_chars

\* if char_count + len(line) + 1 > max_chars
Exceeds(char_count, line, max_chars) ==
    char_count + Len(line) + 1 > max_chars

\* for line in lines: ... ; returns result_lines.
RECURSIVE TruncateLoop(_, _, _, _)
TruncateLoop(lines, result_lines, char_count, max_chars) ==
    IF lines = <<>> THEN result_lines
    ELSE IF Exceeds(char_count, Head(lines), max_chars)
         THEN Append(result_lines, Sentinel)
         ELSE TruncateLoop(Tail(lines), Append(result_lines, Head(lines)),
                           char_count + Len(Head(lines)) + 1, max_chars)

truncate_text_for_context(text, max_chars) ==
    IF Len(text) <= max_chars THEN text
    ELSE Join(TruncateLoop(Split(text, "\n"), <<>>, 0, max_chars), <<"\n">>)

\* Bounds of the transcripts and budgets tried.  Every budget is at least as
\* long as the sentinel, and the transcripts are built of single characters,
\* separators and two long runs, so that lines end just below, at and just
\* above the budget.
MaxPieces == 5
MaxBudget == 4
RunLen == 25
ShortRunLen == 20

RunOf(c, n) == [i \in 1..n |-> c]
TextPieces ==
    {<<"a">>, <<"b">>, <<"\n">>, RunOf("a", RunLen), RunOf("b", ShortRunLen)}
Transcripts(n) == {Flatten(ps) : ps \in SeqsUpTo(TextPieces, n)}
Budgets(n) == {Len(Sentinel) + d : d \in 0..n}

InitTruncate ==
    /\ truncCall \in {[pc |-> "call", text |-> t, max_chars |-> m, result |-> None] :
                        t \in Transcripts(MaxPieces), m \in Budgets(MaxBudget)}
    /\ detectCall = Idle /\ extractCall = Idle /\ convertCall = Idle
    /\ IdleOllama /\ IdleParse

Truncate ==
    /\ truncCall.pc = "call"
    /\ truncCall' = [truncCall EXCEPT
                        !.pc = "done",
                        !.result = truncate_text_for_context(truncCall.text,
                                                             truncCall.max_chars)]
    /\ UNCHANGED <<detectCall, extractCall, convertCall, ollamaVars, parseVars>>

NextTruncate == Truncate

SpecTruncate == InitTruncate /\ [][NextTruncate]_vars

\* C2: the text truncate_text_for_context returns is never longer than the
\* budget, also when the sentinel marker line is appended.
C2_OutputWithinBudget ==
    truncCall.pc = "done" => Len(truncCall.result) <= truncCall.max_chars

C10_WitnessFirstLine ==
    /\ truncCall.pc = "done"
    /\ Len(truncCall.text) > truncCall.max_chars
    /\ truncCall.result = Sentinel

(***************************************************************************)
(* detect_document_type                                                    *)
(***************************************************************************)
BANK_STATEMENT == "bank_statement"
CREDIT_CARD    == "credit_card"
BILL           == "bill"
LOAN           == "loan"
AUTO           == "auto"
DocumentType   == {BANK_STATEMENT, CREDIT_CARD, BILL, LOAN, AUTO}

UpperLetters ==
    {"A", "B", "C", "D", "E", "F", "G", "H", "I", "J", "K", "L", "M",
     "N", "O", "P", "Q", "R", "S", "T", "U", "V", "W", "X", "Y", "Z"}

LowerCase ==
    [c \in UpperLetters |->
        CASE c = "A" -> "a"
          [] c = "B" -> "b"
          [] c = "C" -> "c"
          [] c = "D" -> "d"
          [] c = "E" -> "e"
          [] c = "F" -> "f"
          [] c = "G" -> "g"
          [] c = "H" -> "h"
          [] c = "I" -> "i"
          [] c = "J" -> "j"
          [] c = "K" -> "k"
          [] c = "L" -> "l"
          [] c = "M" -> "m"
          [] c = "N" -> "n"
          [] c = "O" -> "o"
          [] c = "P" -> "p"
          [] c = "Q" -> "q"
          [] c = "R" -> "r"
          [] c = "S" -> "s"
          [] c = "T" -> "t"
          [] c = "U" -> "u"
          [] c = "V" -> "v"
          [] c = "W" -> "w"
          [] c = "X" -> "x"
          [] c = "Y" -> "y"
          [] c = "Z" -> "z"]

\* str.lower() on the letters A-Z.
Lower(text) ==
    [i \in 1..Len(text) |->
        IF text[i] \in UpperLetters THEN LowerCase[text[i]] ELSE text[i]]

\* term in text
Contains(text, term) ==
    \E i \in 1..(Len(text) - Len(term) + 1) :
        SubSeq(text, i, i + Len(term) - 1) = term

CreditCardTerms ==
    { <<"c", "r", "e", "d", "i", "t", " ", "c", "a", "r", "d">>,
      <<"c", "a", "r", "d", " ", "e", "n", "d", "i", "n", "g">>,
      <<"m", "i", "n", "i", "m", "u", "m", " ", "p", "a", "y", "m", "e", "n", "t", " ", "d", "u", "e">>,
      <<"c", "r", "e", "d", "i", "t", " ", "l", "i", "m", "i", "t">>,
      <<"a", "v", "a", "i", "l", "a", "b", "l", "e", " ", "c", "r", "e", "d", "i", "t">>,
      <<"a", "p", "r">> }

LoanTerms ==
    { <<"l", "o", "a", "n">>,
      <<"p", "r", "i", "n", "c", "i", "p", "a", "l", " ", "b", "a", "l", "a", "n", "c", "e">>,
      <<"p", "a", "y", "o", "f", "f", " ", "a", "m", "o", "u", "n", "t">>,
      <<"m", "o", "r", "t", "g", "a", "g", "e">>,
      <<"i", "n", "t", "e", "r", "e", "s", "t", " ", "r", "a", "t", "e">>,
      <<"e", "s", "c", "r", "o", "w">> }

BillTerms ==
    { <<"e", "l", "e", "c", "t", "r", "i", "c">>,
      <<"g", "a", "s", " ", "b", "i", "l", "l">>,
      <<"w", "a", "t", "e", "r", " ", "b", "i", "l", "l">>,
      <<"i", "n", "t", "e", "r", "n", "e", "t">>,
      <<"p", "h", "o", "n", "e", " ", "b", "i", "l", "l">>,
      <<"s", "e", "r", "v", "i", "c", "e", " ", "p", "e", "r", "i", "o", "d">>,
      <<"m", "e", "t", "e", "r", " ", "r", "e", "a", "d", "i", "n", "g">>,
      <<"u", "s", "a", "g", "e">>,
      <<"k", "w", "h">> }

\* any(term in text_lower for term in terms)
AnyTerm(terms, text_lower) == \E term \in terms : Contains(text_lower, term)

\* The number of terms of a table that occur in the text.
MatchCount(terms, text_lower) ==
    Cardinality({term \in terms : Contains(text_lower, term)})

\* A classifier that picks the table with the most matching terms.
detect_by_match_count(text) ==
    LET text_lower == Lower(text)
        cc == MatchCount(CreditCardTerms, text_lower)
        ln == MatchCount(LoanTerms, text_lower)
        bl == MatchCount(BillTerms, text_lower)
    IN  IF cc > 0 /\ cc >= ln /\ cc >= bl THEN CREDIT_CARD
        ELSE IF ln > 0 /\ ln >= bl THEN LOAN
        ELSE IF bl > 0 THEN BILL
        ELSE BANK_STATEMENT

detect_document_type(text) ==
    LET text_lower == Lower(text)
    IN  IF AnyTerm(CreditCardTerms, text_lower) THEN CREDIT_CARD
        ELSE IF AnyTerm(LoanTerms, text_lower) THEN LOAN
        ELSE IF AnyTerm(BillTerms, text_lower) THEN BILL
        ELSE BANK_STATEMENT

\* Bound of the transcripts classified: pieces that hold terms of each table
\* in either case, parts of a term, and text that belongs to no table.
MaxWords == 3

Words ==
    { <<"a">>,
      <<"p", "r">>,
      <<"A", "P", "R">>,
      <<"L", "o", "a", "n">>,
      <<"e", "s", "c", "r", "o", "w">>,
      <<"k", "w", "h">>,
      <<"U", "s", "a", "g", "e">>,
      <<"x">>,
      <<" ">> }
Documents(n) == {Flatten(ws) : ws \in SeqsUpTo(Words, n)}

InitDetect ==
    /\ detectCall \in {[pc |-> "call", text |-> t, result |-> None] : t \in Documents(MaxWords)}
    /\ truncCall = Idle /\ extractCall = Idle /\ convertCall = Idle
    /\ IdleOllama /\ IdleParse

Detect ==
    /\ detectCall.pc = "call"
    /\ detectCall' = [detectCall EXCEPT
                        !.pc = "done",
                        !.result = detect_document_type(detectCall.text)]
    /\ UNCHANGED <<truncCall, extractCall, convertCall, ollamaVars, parseVars>>

NextDetect == Detect

SpecDetect == InitDetect /\ [][NextDetect]_vars

\* A term of the table occurs in the transcript, in any case of its letters.
Occurs(terms, text) ==
    \E term \in terms : \E i \in 1..Len(text) :
        /\ i + Len(term) - 1 <= Len(text)
        /\ \A k \in 1..Len(term) :
              \/ text[i + k - 1] = term[k]
              \/ /\ text[i + k - 1] \in UpperLetters
                 /\ LowerCase[text[i + k - 1]] = term[k]

\* C9: every transcript gets exactly one category, never Auto, decided by
\* priority: CreditCard if a credit-card term occurs, else Loan if a loan
\* term occurs, else Bill if a bill term occurs, else BankStatement.
C9_PriorityClassification ==
    detectCall.pc = "done" =>
        LET text == detectCall.text
            r    == detectCall.result
        IN  /\ r \in DocumentType \ {AUTO}
            /\ Occurs(CreditCardTerms, text) => r = CREDIT_CARD
            /\ (~Occurs(CreditCardTerms, text) /\ Occurs(LoanTerms, text)) => r = LOAN
            /\ (~Occurs(CreditCardTerms, text) /\ ~Occurs(LoanTerms, text)
                  /\ Occurs(BillTerms, text)) => r = BILL
            /\ (~Occurs(CreditCardTerms, text) /\ ~Occurs(LoanTerms, text)
                  /\ ~Occurs(BillTerms, text)) => r = BANK_STATEMENT

\* One credit-card term and two loan terms: the priority decides, not the count.
C9_Witness ==
    /\ detectCall.pc = "done"
    /\ detectCall.result = CREDIT_CARD
    /\ MatchCount(CreditCardTerms, Lower(detectCall.text)) = 1
    /\ MatchCount(LoanTerms, Lower(detectCall.text)) = 2

(***************************************************************************)
(* extract_json_from_response                                              *)
(*                                                                         *)
(* The model text is made of the characters ` { } [ ] 1 x j s o n and the  *)
(* space.  The JSON values over these characters are the numbers 1, 11,    *)
(* ..., the empty object {}, the empty array [] and the one-element array  *)
(* [value], with spaces allowed around the brackets' contents.             *)
(***************************************************************************)
\* The whitespace str.strip(), \s and JSON skip.
IsSpace(c) == c \in {" ", "\n", "\t", "\r"}

\* str.strip()
RECURSIVE Strip(_)
Strip(s) ==
    IF s = <<>> THEN s
    ELSE IF IsSpace(s[1]) THEN Strip(Tail(s))
    ELSE IF IsSpace(s[Len(s)]) THEN Strip(SubSeq(s, 1, Len(s) - 1))
    ELSE s

\* The grammar json.loads accepts, on a text without surrounding spaces.
RECURSIVE IsJSONValue(_)
IsJSONValue(s) ==
    /\ s # <<>>
    /\ \/ \A i \in 1..Len(s) : s[i] = "1"
       \/ /\ Len(s) >= 2 /\ s[1] = "{" /\ s[Len(s)] = "}"
          /\ Strip(SubSeq(s, 2, Len(s) - 1)) = <<>>
       \/ /\ Len(s) >= 2 /\ s[1] = "[" /\ s[Len(s)] = "]"
          /\ LET inner == Strip(SubSeq(s, 2, Len(s) - 1))
             IN  inner = <<>> \/ IsJSONValue(inner)

\* The value of a JSON text: the text without its (insignificant) spaces.
JSONValue(s) == SelectSeq(s, LAMBDA c : ~IsSpace(c))

\* json.loads(s): the value, or a JSONDecodeError.
json_loads(s) ==
    IF IsJSONValue(Strip(s))
    THEN [ok |-> TRUE, value |-> JSONValue(s)]
    ELSE [ok |-> FALSE, value |-> "JSONDecodeError"]

\* The backquote character (written out: the character itself cannot stand in
\* a string of this notation).
Backquote == "BACKQUOTE"
Fence == <<Backquote, Backquote, Backquote>>
JsonTag == <<"j", "s", "o", "n">>

StartsAt(text, i, word) ==
    /\ i >= 1
    /\ i + Len(word) - 1 <= Len(text)
    /\ SubSeq(text, i, i + Len(word) - 1) = word

Min(S) == CHOOSE x \in S : \A y \in S : x <= y
Max(S) == CHOOSE x \in S : \A y \in S : x >= y

\* The position after the spaces that start at i.
RECURSIVE SkipSpaces(_, _)
SkipSpaces(text, i) ==
    IF i <= Len(text) /\ IsSpace(text[i]) THEN SkipSpaces(text, i + 1) ELSE i

\* re.search(r"```(?:json)?\s*([\s\S]*?)\s*```", text): group(1) of the
\* leftmost match, or no match.  The tag and the spaces after the opening
\* fence are taken greedily; the group is the shortest text after them that
\* is followed by spaces and a closing fence.
SearchFenced(text) ==
    LET opens == {i \in 1..Len(text) : StartsAt(text, i, Fence)}
    IN  IF opens = {} THEN [found |-> FALSE, group |-> <<>>]
        ELSE
          LET i      == Min(opens)
              after  == IF StartsAt(text, i + 3, JsonTag) THEN i + 7 ELSE i + 3
              start  == SkipSpaces(text, after)
              ends   == {e \in start..(Len(text) + 1) :
                            \E c \in e..Len(text) :
                                /\ StartsAt(text, c, Fence)
                                /\ \A k \in e..(c - 1) : IsSpace(text[k])}
          IN  IF ends = {} THEN [found |-> FALSE, group |-> <<>>]
              ELSE [found |-> TRUE, group |-> SubSeq(text, start, Min(ends) - 1)]

\* re.search(r"\{[\s\S]*\}", text) and re.search(r"\[[\s\S]*\]", text): from
\* the first opening bracket to the last closing one.
SearchBrackets(text, open, close) ==
    LET opens  == {i \in 1..Len(text) : text[i] = open}
        closes == {i \in 1..Len(text) : text[i] = close}
    IN  IF opens = {} \/ closes = {} \/ Max(closes) < Min(opens)
        THEN [found |-> FALSE, group |-> <<>>]
        ELSE [found |-> TRUE, group |-> SubSeq(text, Min(opens), Max(closes))]

ValueError == [ok |-> FALSE, value |-> "ValueError"]

\* The except branch: the object pattern, then the array pattern, on `text`.
ScanPatterns(text) ==
    LET obj == SearchBrackets(text, "{", "}")
        arr == SearchBrackets(text, "[", "]")
    IN  IF obj.found /\ json_loads(obj.group).ok THEN json_loads(obj.group)
        ELSE IF arr.found /\ json_loads(arr.group).ok THEN json_loads(arr.group)
        ELSE ValueError

extract_json_from_response(response) ==
    LET json_match == SearchFenced(response)
        text       == IF json_match.found THEN json_match.group ELSE response
    IN  IF json_loads(Strip(text)).ok THEN json_loads(Strip(text))
        ELSE ScanPatterns(text)

\* Bound of the model texts tried, built of these pieces.
MaxTokens == 5

Tokens == {Fence, JsonTag, <<"{">>, <<"}">>, <<"[">>, <<"]">>, <<"1">>, <<"x">>, <<" ">>}
Responses(n) == {Flatten(ts) : ts \in SeqsUpTo(Tokens, n)}

InitExtract ==
    /\ extractCall \in {[pc |-> "call", text |-> t, result |-> None] : t \in Responses(MaxTokens)}
    /\ truncCall = Idle /\ detectCall = Idle /\ convertCall = Idle
    /\ IdleOllama /\ IdleParse

Extract ==
    /\ extractCall.pc = "call"
    /\ extractCall' = [extractCall EXCEPT
                        !.pc = "done",
                        !.result = extract_json_from_response(extractCall.text)]
    /\ UNCHANGED <<truncCall, detectCall, convertCall, ollamaVars, parseVars>>

NextExtract == Extract

SpecExtract == InitExtract /\ [][NextExtract]_vars

\* The layers as section 4.4 of the specification orders them: the fenced block's contents, then the
\* entire trimmed model text, then the object and the array pattern on the
\* model text.
LayeredExtraction(response) ==
    LET fenced == SearchFenced(response)
    IN  IF fenced.found /\ json_loads(fenced.group).ok THEN json_loads(fenced.group)
        ELSE IF json_loads(Strip(response)).ok THEN json_loads(Strip(response))
        ELSE ScanPatterns(response)

\* C4: extraction returns the first of (1) the fenced block's contents, (2)
\* the entire trimmed model text, (3) the first object-shaped then the first
\* array-shaped substring of the model text that parses, and fails only if
\* every layer fails.
C4_LayeredExtraction ==
    extractCall.pc = "done" =>
        extractCall.result = LayeredExtraction(extractCall.text)

(***************************************************************************)
(* call_ollama                                                             *)
(*                                                                         *)
(* A line of the stream is empty, text json.loads rejects, a JSON value    *)
(* that is not an object, or an object.  An object's "response" is absent, *)
(* a string or a value of another type; its "done" is absent, false or     *)
(* true.                                                                   *)
(***************************************************************************)
MaxLines == 3

Fragments == {<<>>, <<"a">>, <<"b">>}

ObjectLines ==
    {[kind |-> "object", rtype |-> "str", response |-> f, done |-> d] :
        f \in Fragments, d \in {"absent", "false", "true"}}
    \cup
    {[kind |-> "object", rtype |-> t, response |-> <<>>, done |-> d] :
        t \in {"absent", "other"}, d \in {"absent", "false", "true"}}

OtherLines ==
    {[kind |-> k, rtype |-> "absent", response |-> <<>>, done |-> "absent"] :
        k \in {"empty", "garbage", "nonobject"}}

Lines == ObjectLines \cup OtherLines

\* The loop body that tests "done" before it appends the fragment.
DoneBeforeAppend(acc, line) ==
    IF line.kind \in {"empty", "garbage"} THEN [acc |-> acc, next |-> "continue"]
    ELSE IF line.kind = "nonobject" THEN [acc |-> acc, next |-> "AttributeError"]
    ELSE IF line.done = "true" THEN [acc |-> acc, next |-> "break"]
    ELSE IF line.rtype = "other" THEN [acc |-> acc, next |-> "TypeError"]
    ELSE [acc |-> acc \o line.response, next |-> "continue"]

\* The body of `async for line in response.aiter_lines()`: the accumulator
\* after the line, and how the loop goes on.  json.loads raises
\* JSONDecodeError on text it rejects (caught: continue); chunk.get raises
\* AttributeError on a value that is not an object, and `full_response +=`
\* raises TypeError on a response that is not a string (neither is caught).
ProcessLine(acc, line) ==
    IF line.kind = "empty" THEN [acc |-> acc, next |-> "continue"]
    ELSE IF line.kind = "garbage" THEN [acc |-> acc, next |-> "continue"]
    ELSE IF line.kind = "nonobject" THEN [acc |-> acc, next |-> "AttributeError"]
    ELSE IF line.rtype = "other" THEN [acc |-> acc, next |-> "TypeError"]
    ELSE LET appended == IF line.rtype = "str" THEN acc \o line.response ELSE acc
         IN  [acc |-> appended,
              next |-> IF line.done = "true" THEN "break" ELSE "continue"]

InitOllama ==
    /\ o_pc = "open"
    /\ stream \in SeqsUpTo(Lines, MaxLines)
    /\ next_line = 1
    /\ full_response = <<>>
    /\ o_exc = "none"
    /\ truncCall = Idle /\ detectCall = Idle /\ extractCall = Idle /\ convertCall = Idle
    /\ IdleParse

\* The connection fails or times out before a status arrives.
OllamaConnectFails ==
    /\ o_pc = "open"
    /\ \E e \in {"ConnectError", "ConnectTimeout"} : o_exc' = e
    /\ o_pc' = "raised"
    /\ UNCHANGED <<stream, next_line, full_response, pureVars, parseVars>>

\* response.status_code != 200: HTTPException(status_code=502).
OllamaStatusError ==
    /\ o_pc = "open"
    /\ o_pc' = "raised"
    /\ o_exc' = "HTTPException502"
    /\ UNCHANGED <<stream, next_line, full_response, pureVars, parseVars>>

OllamaStatusOk ==
    /\ o_pc = "open"
    /\ o_pc' = "streaming"
    /\ UNCHANGED <<stream, next_line, full_response, o_exc, pureVars, parseVars>>

\* One iteration of the loop over the lines.
OllamaLine ==
    /\ o_pc = "streaming"
    /\ next_line <= Len(stream)
    /\ LET step == ProcessLine(full_response, stream[next_line])
       IN  /\ full_response' = step.acc
           /\ next_line' = next_line + 1
           /\ o_pc' = CASE step.next = "continue" -> "streaming"
                        [] step.next = "break"    -> "returned"
                        [] OTHER                  -> "raised"
           /\ o_exc' = IF step.next \in {"continue", "break"} THEN o_exc ELSE step.next
    /\ UNCHANGED <<stream, pureVars, parseVars>>

\* The stream ends without a done chunk.
OllamaStreamEnds ==
    /\ o_pc = "streaming"
    /\ next_line > Len(stream)
    /\ o_pc' = "returned"
    /\ UNCHANGED <<stream, next_line, full_response, o_exc, pureVars, parseVars>>

\* No line arrives within the read timeout.
OllamaReadTimeout ==
    /\ o_pc = "streaming"
    /\ next_line <= Len(stream)
    /\ o_pc' = "raised"
    /\ o_exc' = "ReadTimeout"
    /\ UNCHANGED <<stream, next_line, full_response, pureVars, parseVars>>

NextOllama ==
    \/ OllamaConnectFails
    \/ OllamaStatusError
    \/ OllamaStatusOk
    \/ OllamaLine
    \/ OllamaStreamEnds
    \/ OllamaReadTimeout

SpecOllama == InitOllama /\ [][NextOllama]_vars

TransportErrors == {"ConnectError", "ConnectTimeout", "ReadTimeout", "HTTPException502"}

\* C5: a malformed chunk anywhere in the stream contributes nothing and raises
\* no error: call_ollama is left by an exception only when the capability
\* is unreachable, times out or answers with an error status, and the lines
\* after a malformed one are still read.
C5_MalformedChunksSkipped ==
    /\ o_pc = "raised" => o_exc \in TransportErrors
    /\ (o_pc = "returned" /\ \A i \in 1..Len(stream) : ~(stream[i].done = "true"))
          => next_line = Len(stream) + 1

IsDoneLine(line) == line.kind = "object" /\ line.done = "true"
FragmentOf(line) ==
    IF line.kind = "object" /\ line.rtype = "str" THEN line.response ELSE <<>>

\* The fragments of the lines up to and including the first done chunk (all
\* lines if there is none), concatenated in arrival order.
ExpectedResponse(lines) ==
    LET dones == {i \in 1..Len(lines) : IsDoneLine(lines[i])}
        last  == IF dones = {} THEN Len(lines) ELSE Min(dones)
    IN  Flatten([i \in 1..last |-> FragmentOf(lines[i])])

\* C6: the text call_ollama returns is the concatenation, in arrival order,
\* of the fragments of the chunks up to and including the first done chunk,
\* or of all chunks if the stream ends without one.
C6_AggregatesUntilDone ==
    o_pc = "returned" => full_response = ExpectedResponse(stream)

\* A done chunk that carries a fragment, after an earlier fragment, followed by
\* a chunk whose fragment is never appended.
C6_Witness ==
    /\ o_pc = "returned"
    /\ Len(stream) = 3
    /\ FragmentOf(stream[1]) = <<"a">>
    /\ IsDoneLine(stream[2]) /\ FragmentOf(stream[2]) = <<"b">>
    /\ FragmentOf(stream[3]) = <<"a">>
    /\ full_response = <<"a", "b">>

(***************************************************************************)
(* convert_to_driftmoney_format                                            *)
(*                                                                         *)
(* A JSON value read from the payload is a record [t, v]: t = "absent"     *)
(* (the key is missing), "num" (a number v), "numstr" (a string that       *)
(* spells the number v), "badstr" (any other string), "null", "str" (a     *)
(* string used as text), "empty" (an empty object), "object", "list" or    *)
(* "other" (a value of the wrong shape).                                   *)
(***************************************************************************)
TODAY      == "today"       \* datetime.now().strftime("%Y-%m-%d")
THIS_MONTH == "this-month"  \* get_current_month()

Absent    == [t |-> "absent", v |-> 0]
Null      == [t |-> "null", v |-> 0]
Num(n)    == [t |-> "num", v |-> n]
NumStr(n) == [t |-> "numstr", v |-> n]
BadStr    == [t |-> "badstr", v |-> 0]

\* dict.get(key, default) on a value read from the payload.
Get(value, default) == IF value.t = "absent" THEN default ELSE value

\* float(x) and int(x): a number or a string that spells one converts;
\* another string raises ValueError, None raises TypeError.
ToNumber(x) ==
    CASE x.t \in {"num", "numstr"} -> [ok |-> TRUE, value |-> x.v, error |-> "none"]
      [] x.t = "badstr"            -> [ok |-> FALSE, value |-> 0, error |-> "ValueError"]
      [] OTHER                     -> [ok |-> FALSE, value |-> 0, error |-> "TypeError"]

\* The text of an optional string field.
Text(value, default) == IF value.t = "absent" THEN default ELSE value.v

\* The loop `for tx in parsed_data.get("transactions", [])`: each entry is
\* appended to result.transactions as it is converted; the first entry that
\* raises (tx.get on a value that is not an object, float() on the amount)
\* leaves the loop with the entries appended so far.
RECURSIVE ConvertTransactions(_, _)
ConvertTransactions(txs, appended) ==
    IF txs = <<>> THEN [transactions |-> appended, error |-> "none"]
    ELSE LET tx == Head(txs)
         IN  IF tx.t # "object"
             THEN [transactions |-> appended, error |-> "AttributeError"]
             ELSE LET amount == ToNumber(Get(tx.amount, Num(0)))
                  IN  IF ~amount.ok
                      THEN [transactions |-> appended, error |-> amount.error]
                      ELSE ConvertTransactions(Tail(txs),
                              Append(appended,
                                     [id          |-> Len(appended) + 1,
                                      description |-> Text(tx.description, "Unknown"),
                                      amount      |-> amount.value,
                                      type        |-> Text(tx.type, "expense"),
                                      date        |-> Text(tx.date, TODAY),
                                      category    |-> Text(tx.category, None)]))

\* The transactions of a payload: .get on the payload, then the loop.
TransactionsOf(payload) ==
    LET txs == Get(payload.transactions, [t |-> "list", v |-> <<>>])
    IN  IF txs.t # "list" THEN [transactions |-> <<>>, error |-> "TypeError"]
        ELSE ConvertTransactions(txs.v, <<>>)

\* `if debt_info:` / `if bill_info:` : absent, null and the empty object are falsy.
Truthy(value) == value.t \notin {"absent", "null", "empty"}

\* Debt(...) from the "debt" object; frequency is what the category passes
\* for paymentFrequency.  paymentDueDay and minimumPayment are passed on as
\* read (None when absent).
ConvertDebt(debt_info, company, frequency, id) ==
    IF debt_info.t # "object" THEN [debts |-> <<>>, error |-> "AttributeError"]
    ELSE LET balance == ToNumber(Get(debt_info.v.balance, Num(0)))
         IN  IF ~balance.ok THEN [debts |-> <<>>, error |-> balance.error]
             ELSE [debts |-> <<[id               |-> id,
                                company          |-> Text(debt_info.v.company, company),
                                balance          |-> balance.value,
                                lastUpdated      |-> TODAY,
                                isRecurring      |-> TRUE,
                                paymentDueDay    |-> Get(debt_info.v.paymentDueDay, Null),
                                paymentFrequency |-> frequency,
                                minimumPayment   |-> Get(debt_info.v.minimumPayment, Null),
                                syncStatus       |-> "dirty"]>>,
                   error |-> "none"]

\* Bill(...) from the "bill" object: dueDay=int(bill_info.get("dueDay", 1)).
ConvertBill(bill_info, id) ==
    IF bill_info.t # "object" THEN [bills |-> <<>>, error |-> "AttributeError"]
    ELSE LET amount == ToNumber(Get(bill_info.v.amount, Num(0)))
             dueDay == ToNumber(Get(bill_info.v.dueDay, Num(1)))
         IN  IF ~amount.ok THEN [bills |-> <<>>, error |-> amount.error]
             ELSE IF ~dueDay.ok THEN [bills |-> <<>>, error |-> dueDay.error]
             ELSE [bills |-> <<[id         |-> id,
                                name       |-> Text(bill_info.v.name, "Bill"),
                                amount     |-> amount.value,
                                dueDay     |-> dueDay.value,
                                isPaid     |-> FALSE,
                                billMonth  |-> Text(bill_info.v.billMonth, THIS_MONTH),
                                syncStatus |-> "dirty"]>>,
                   error |-> "none"]

\* ParseResult(...): `error` is "none" for Python's None.
ParseResult(doc_type, transactions, bills, debts, error) ==
    [success       |-> error = "none",
     document_type |-> doc_type,
     transactions  |-> transactions,
     bills         |-> bills,
     debts         |-> debts,
     raw_text      |-> None,
     error         |-> error]

convert_to_driftmoney_format(payload, doc_type) ==
    IF doc_type \notin {BANK_STATEMENT, CREDIT_CARD, BILL, LOAN}
    THEN \* no branch is taken
         ParseResult(doc_type, <<>>, <<>>, <<>>, "none")
    ELSE IF payload.t # "object"
    THEN \* parsed_data.get raises AttributeError inside the try block
         ParseResult(doc_type, <<>>, <<>>, <<>>, "AttributeError")
    ELSE
      LET data == payload.v
      IN
      CASE doc_type = BANK_STATEMENT ->
             LET txs == TransactionsOf(data)
             IN  ParseResult(doc_type, txs.transactions, <<>>, <<>>, txs.error)
        [] doc_type = CREDIT_CARD ->
             LET txs == TransactionsOf(data)
             IN  IF txs.error # "none" \/ ~Truthy(data.debt)
                 THEN ParseResult(doc_type, txs.transactions, <<>>, <<>>, txs.error)
                 ELSE LET debt == ConvertDebt(data.debt, "Credit Card", "monthly",
                                              Len(txs.transactions) + 1)
                      IN  ParseResult(doc_type, txs.transactions, <<>>,
                                      debt.debts, debt.error)
        [] doc_type = BILL ->
             IF ~Truthy(data.bill)
             THEN ParseResult(doc_type, <<>>, <<>>, <<>>, "none")
             ELSE LET bill == ConvertBill(data.bill, 1)
                  IN  ParseResult(doc_type, <<>>, bill.bills, <<>>, bill.error)
        [] doc_type = LOAN ->
             IF ~Truthy(data.debt)
             THEN ParseResult(doc_type, <<>>, <<>>, <<>>, "none")
             ELSE LET debt == ConvertDebt(data.debt, "Loan",
                                  IF data.debt.t = "object"
                                  THEN Text(data.debt.v.paymentFrequency, "monthly")
                                  ELSE "monthly", 1)
                  IN  ParseResult(doc_type, <<>>, <<>>, debt.debts, debt.error)

\* Bounds of the payloads tried.
MaxTx == 2
MaxDay == 32

Str(s) == [t |-> "str", v |-> s]
Other  == [t |-> "other", v |-> 0]
Empty  == [t |-> "empty", v |-> 0]

Amounts == {Absent, Num(5), NumStr(7), BadStr, Null}

TxEntries ==
    {[t |-> "object", amount |-> a, description |-> Absent, type |-> Absent,
      date |-> Absent, category |-> Absent] : a \in Amounts}
    \cup
    {[t |-> "object", amount |-> Num(9), description |-> Str("Coffee"),
      type |-> Str("income"), date |-> Str("2024-01-05"), category |-> Str("Food")],
     [t |-> "other", amount |-> Absent, description |-> Absent, type |-> Absent,
      date |-> Absent, category |-> Absent]}

TransactionsValues(n) ==
    {Absent, Null} \cup {[t |-> "list", v |-> txs] : txs \in SeqsUpTo(TxEntries, n)}

DebtValues ==
    {Absent, Empty, Other}
    \cup
    {[t |-> "object",
      v |-> [company |-> Absent, balance |-> b, paymentDueDay |-> d,
             paymentFrequency |-> f, minimumPayment |-> Absent]] :
        b \in {Absent, Num(100), BadStr}, d \in {Absent, Num(15)},
        f \in {Absent, Str("weekly")}}

\* dueDay: absent, below the range, its ends, above it, spelled, not a number.
DueDays(max) ==
    {Absent, NumStr(15), BadStr} \cup {Num(d) : d \in {-1, 0, 1, 31, max}}

BillValues(max) ==
    {Absent, Empty, Other}
    \cup
    {[t |-> "object",
      v |-> [name |-> Absent, amount |-> a, dueDay |-> d, billMonth |-> Absent]] :
        a \in {Num(120), BadStr}, d \in DueDays(max)}
    \cup
    {[t |-> "object",
      v |-> [name |-> Str("Electric"), amount |-> Num(120), dueDay |-> Num(15),
             billMonth |-> Str("2024-02")]]}

Payloads(n, max) ==
    {[t |-> "other", v |-> [transactions |-> Absent, debt |-> Absent, bill |-> Absent]]}
    \cup
    {[t |-> "object", v |-> [transactions |-> x, debt |-> d, bill |-> b]] :
        x \in TransactionsValues(n), d \in DebtValues, b \in BillValues(max)}

InitConvert ==
    /\ convertCall \in {[pc |-> "call", parsed_data |-> p, doc_type |-> c,
                         result |-> None] :
                            p \in Payloads(MaxTx, MaxDay), c \in DocumentType \ {AUTO}}
    /\ truncCall = Idle /\ detectCall = Idle /\ extractCall = Idle
    /\ IdleOllama /\ IdleParse

Convert ==
    /\ convertCall.pc = "call"
    /\ convertCall' = [convertCall EXCEPT
                        !.pc = "done",
                        !.result = convert_to_driftmoney_format(
                                       convertCall.parsed_data, convertCall.doc_type)]
    /\ UNCHANGED <<truncCall, detectCall, extractCall, ollamaVars, parseVars>>

NextConvert == Convert

SpecConvert == InitConvert /\ [][NextConvert]_vars

\* C1: a result with success false has empty transactions, bills and debts:
\* records converted before the failing one are not left in it.
C1_FailedResultIsEmpty ==
    (convertCall.pc = "done" /\ ~convertCall.result.success) =>
        /\ convertCall.result.transactions = <<>>
        /\ convertCall.result.bills = <<>>
        /\ convertCall.result.debts = <<>>

\* C8: every Bill in a result of category Bill has dueDay in 1..31.
C8_DueDayInRange ==
    (convertCall.pc = "done" /\ convertCall.doc_type = BILL) =>
        \A i \in 1..Len(convertCall.result.bills) :
            convertCall.result.bills[i].dueDay \in 1..31

(***************************************************************************)
(* parse_document                                                          *)
(*                                                                         *)
(* The handler is modelled stage by stage.  The two external capabilities  *)
(* answer as they please: call_surya_ocr returns a transcript or raises,   *)
(* call_ollama returns a model text or raises (SpecOllama shows what it    *)
(* raises), and a prompt file exists or does not.  The JSON text of the    *)
(* model only carries the shape of the value, so an extracted object       *)
(* stands for any payload object, and another value for a payload that is  *)
(* not an object.                                                          *)
(***************************************************************************)
\* max_chars=10000 in parse_document.
ContextBudget == 10000

\* What call_surya_ocr raises: the client's errors, HTTPException(502) on a
\* status other than 200, and response.json() on a body that is not JSON.
OcrErrors == {"ConnectError", "ReadTimeout", "HTTPException502", "JSONDecodeError"}

\* What call_ollama raises: the transport's errors, and the errors of a chunk
\* that is JSON but not an object with a string response.
OllamaErrors == {"ConnectError", "ConnectTimeout", "ReadTimeout", "HTTPException502",
                 "AttributeError", "TypeError"}

\* The transcripts the OCR capability returns: empty, whitespace only, and
\* text with terms of each category or of none.
OcrTexts ==
    {<<>>, <<" ">>, <<" ", "\n">>,
     <<"A", "P", "R">>, <<"L", "o", "a", "n">>, <<"k", "w", "h">>, <<"x">>,
     <<"l", "o", "a", "n", " ", "a", "p", "r">>}

\* The model texts call_ollama returns.
LlmTexts ==
    {Flatten(ts) : ts \in
        {<<>>, <<(<<"x">>)>>, <<(<<"{">>), (<<"}">>)>>, <<(<<"[">>), (<<"1">>), (<<"]">>)>>,
         <<Fence, JsonTag, (<<"{">>), (<<"}">>), Fence>>,
         <<(<<"x">>), (<<"{">>), (<<"}">>), (<<"x">>)>>,
         <<(<<"{">>), (<<"}">>), Fence, (<<"x">>), Fence>>}}

GoodTx == [t |-> "object", amount |-> Num(5), description |-> Absent, type |-> Absent,
           date |-> Absent, category |-> Absent]
BadTx  == [t |-> "object", amount |-> BadStr, description |-> Absent, type |-> Absent,
           date |-> Absent, category |-> Absent]
DebtObject(b) ==
    [t |-> "object", v |-> [company |-> Absent, balance |-> b, paymentDueDay |-> Absent,
                            paymentFrequency |-> Absent, minimumPayment |-> Absent]]
BillObject(d) ==
    [t |-> "object", v |-> [name |-> Absent, amount |-> Num(120), dueDay |-> d,
                            billMonth |-> Absent]]

\* The payload objects a model text may hold.
ObjectPayloads ==
    {[t |-> "object", v |-> [transactions |-> x, debt |-> d, bill |-> b]] :
        x \in {Absent, [t |-> "list", v |-> <<GoodTx>>],
               [t |-> "list", v |-> <<GoodTx, BadTx>>]},
        d \in {Absent, DebtObject(Num(100)), DebtObject(BadStr)},
        b \in {Absent, BillObject(Num(15)), BillObject(BadStr)}}

OtherPayload ==
    [t |-> "other", v |-> [transactions |-> Absent, debt |-> Absent, bill |-> Absent]]

\* The payloads a parsed JSON value stands for.
PayloadsOf(value) ==
    IF value # <<>> /\ value[1] = "{" THEN ObjectPayloads ELSE {OtherPayload}

\* A transcript that is not blank only when it is empty.
IsEmptyText(text) == text = <<>>

\* not ocr_text.strip()
IsBlank(text) == Strip(text) = <<>>

Fail(stage, error, status) ==
    /\ p_pc' = "failed"
    /\ p_exc' = [stage |-> stage, error |-> error]
    /\ status_code' = status
    /\ stages' = Append(stages, stage)

InitParse ==
    /\ p_pc = "ocr"
    /\ request \in [document_type : DocumentType, include_raw_text : BOOLEAN]
    /\ document_type = request.document_type
    /\ ocr_text = <<>> /\ truncated_text = <<>> /\ llm_response = <<>>
    /\ parsed_data = NoPayload /\ result = NoResult /\ status_code = 0
    /\ p_exc = NoExc /\ stages = <<>>
    /\ truncCall = Idle /\ detectCall = Idle /\ extractCall = Idle /\ convertCall = Idle
    /\ IdleOllama

\* Step 1: call_surya_ocr raises; except Exception -> HTTPException(502).
ParseOcrFails ==
    /\ p_pc = "ocr"
    /\ \E e \in OcrErrors : Fail("ocr", e, 502)
    /\ UNCHANGED <<request, document_type, ocr_text, truncated_text, llm_response,
                   parsed_data, result, pureVars, ollamaVars>>

\* Step 1: call_surya_ocr returns the transcript.
ParseOcrReturns ==
    /\ p_pc = "ocr"
    /\ \E t \in OcrTexts : ocr_text' = t
    /\ p_pc' = "empty_check"
    /\ stages' = Append(stages, "ocr")
    /\ UNCHANGED <<request, document_type, truncated_text, llm_response, parsed_data,
                   result, status_code, p_exc, pureVars, ollamaVars>>

\* if not ocr_text.strip(): raise HTTPException(400)
ParseEmptyCheck ==
    /\ p_pc = "empty_check"
    /\ IF IsBlank(ocr_text)
       THEN Fail("empty_check", "HTTPException400", 400)
       ELSE /\ p_pc' = "classify"
            /\ stages' = Append(stages, "empty_check")
            /\ UNCHANGED <<status_code, p_exc>>
    /\ UNCHANGED <<request, document_type, ocr_text, truncated_text, llm_response,
                   parsed_data, result, pureVars, ollamaVars>>

\* Step 2: if document_type == DocumentType.AUTO: detect_document_type.
ParseClassify ==
    /\ p_pc = "classify"
    /\ IF document_type = AUTO
       THEN /\ document_type' = detect_document_type(ocr_text)
            /\ stages' = Append(stages, "classify")
       ELSE UNCHANGED <<document_type, stages>>
    /\ p_pc' = "load_prompt"
    /\ UNCHANGED <<request, ocr_text, truncated_text, llm_response, parsed_data,
                   result, status_code, p_exc, pureVars, ollamaVars>>

\* Step 3: load_prompt: the prompt file exists, or ValueError -> 500.
ParseLoadPrompt ==
    /\ p_pc = "load_prompt"
    /\ \E exists \in BOOLEAN :
          IF exists
          THEN /\ p_pc' = "truncate"
               /\ stages' = Append(stages, "load_prompt")
               /\ UNCHANGED <<status_code, p_exc>>
          ELSE Fail("load_prompt", "ValueError", 500)
    /\ UNCHANGED <<request, document_type, ocr_text, truncated_text, llm_response,
                   parsed_data, result, pureVars, ollamaVars>>

\* truncated_text = truncate_text_for_context(ocr_text, max_chars=10000)
ParseTruncate ==
    /\ p_pc = "truncate"
    /\ truncated_text' = truncate_text_for_context(ocr_text, ContextBudget)
    /\ p_pc' = "inference"
    /\ stages' = Append(stages, "truncate")
    /\ UNCHANGED <<request, document_type, ocr_text, llm_response, parsed_data,
                   result, status_code, p_exc, pureVars, ollamaVars>>

\* call_ollama raises; except Exception -> HTTPException(500).
ParseInferenceFails ==
    /\ p_pc = "inference"
    /\ \E e \in OllamaErrors : Fail("inference", e, 500)
    /\ UNCHANGED <<request, document_type, ocr_text, truncated_text, llm_response,
                   parsed_data, result, pureVars, ollamaVars>>

\* call_ollama returns the model text.
ParseInferenceReturns ==
    /\ p_pc = "inference"
    /\ \E t \in LlmTexts : llm_response' = t
    /\ p_pc' = "extract"
    /\ stages' = Append(stages, "inference")
    /\ UNCHANGED <<request, document_type, ocr_text, truncated_text, parsed_data,
                   result, status_code, p_exc, pureVars, ollamaVars>>

\* parsed_data = extract_json_from_response(llm_response); ValueError -> 500.
ParseExtract ==
    /\ p_pc = "extract"
    /\ LET extracted == extract_json_from_response(llm_response)
       IN  IF extracted.ok
           THEN /\ \E payload \in PayloadsOf(extracted.value) : parsed_data' = payload
                /\ p_pc' = "normalize"
                /\ stages' = Append(stages, "extract")
                /\ UNCHANGED <<status_code, p_exc>>
           ELSE /\ Fail("extract", "ValueError", 500)
                /\ UNCHANGED parsed_data
    /\ UNCHANGED <<request, document_type, ocr_text, truncated_text, llm_response,
                   result, pureVars, ollamaVars>>

\* Step 4: convert_to_driftmoney_format, raw_text, return result.
ParseConvert ==
    /\ p_pc = "normalize"
    /\ LET converted == convert_to_driftmoney_format(parsed_data, document_type)
       IN  result' = IF request.include_raw_text
                     THEN [converted EXCEPT !.raw_text = ocr_text]
                     ELSE converted
    /\ p_pc' = "done"
    /\ status_code' = 200
    /\ stages' = Append(stages, "normalize")
    /\ UNCHANGED <<request, document_type, ocr_text, truncated_text, llm_response,
                   parsed_data, p_exc, pureVars, ollamaVars>>

Next ==
    \/ ParseOcrFails
    \/ ParseOcrReturns
    \/ ParseEmptyCheck
    \/ ParseClassify
    \/ ParseLoadPrompt
    \/ ParseTruncate
    \/ ParseInferenceFails
    \/ ParseInferenceReturns
    \/ ParseExtract
    \/ ParseConvert

Spec == InitParse /\ [][Next]_vars

\* C3: a request ends with 502 whenever the OCR capability or the inference
\* capability is unreachable, times out or answers with an error status, and
\* only then; 400 is the status of an empty transcript.
C3_UpstreamFailureIs502 ==
    p_pc = "failed" =>
        /\ (p_exc.stage = "ocr") => status_code = 502
        /\ (p_exc.stage = "inference" /\ p_exc.error \in TransportErrors)
              => status_code = 502
        /\ status_code = 400 <=> p_exc.stage = "empty_check"

\* The order of the stages of a request.
StageOrder(auto) ==
    <<"ocr", "empty_check">> \o (IF auto THEN <<"classify">> ELSE <<>>)
        \o <<"load_prompt", "truncate", "inference", "extract", "normalize">>

IsPrefix(s, t) == Len(s) <= Len(t) /\ SubSeq(t, 1, Len(s)) = s

Ran(stage) == \E i \in 1..Len(stages) : stages[i] = stage

\* C7: the stages run in order (classification only for Auto); a failed
\* stage ends the request with an error status and no result, and nothing
\* runs after it: no stage after an empty or whitespace-only transcript, no
\* normalization of a model text that holds no JSON; a result is returned
\* only after every stage, and it has success=false only when normalization
\* failed.
C7_StagesInOrderFailFast ==
    /\ IsPrefix(stages, StageOrder(request.document_type = AUTO))
    /\ p_exc.stage # "none" => p_pc = "failed"
    /\ p_pc = "failed" =>
          /\ result = NoResult
          /\ status_code \in {400, 500, 502}
          /\ p_exc.stage = stages[Len(stages)]
    /\ (Ran("empty_check") /\ \A i \in 1..Len(ocr_text) : IsSpace(ocr_text[i]))
          => /\ p_pc = "failed"
             /\ stages = <<"ocr", "empty_check">>
    /\ (Ran("extract") /\ ~extract_json_from_response(llm_response).ok)
          => p_pc = "failed" /\ ~Ran("normalize")
    /\ result # NoResult =>
          /\ p_pc = "done" /\ status_code = 200
          /\ stages = StageOrder(request.document_type = AUTO)
          /\ ~result.success =>
                convert_to_driftmoney_format(parsed_data, document_type).error # "none"
    /\ p_pc = "done" => result # NoResult
    /\ document_type = AUTO => ~Ran("load_prompt")

\* A request that ran every stage and whose normalization failed.
C7_Witness ==
    /\ p_pc = "done"
    /\ request.document_type = AUTO
    /\ Len(stages) = 8
    /\ ~result.success
====
